---- MODULE Spec2Model ----
(***************************************************************************)
(* The live stat-ledger engine of src/backend/server.py: the handlers that *)
(* record, adjust and undo stat events of one game document and delete     *)
(* shots from its shot chart.  A handler reads the stored game, changes    *)
(* the copy it read and writes some fields of it back with $set.           *)
(***************************************************************************)
EXTENDS Integers, Sequences, FiniteSets, TLC

(***************************************************************************)
(* Bounds of the model.                                                    *)
(***************************************************************************)
\* requests answered in one behaviour of Spec and SpecAdjust
MaxOps == 2
\* requests answered in one behaviour of SpecShot
MaxEdits == 3
\* stats recorded before the first undo in one behaviour of SpecTrip
MaxTrip == 2
\* connections that can have a request in flight at the same time
MaxConnections == 2
\* requests answered in SpecChart
MaxChart == 4
\* requests answered in SpecShare
MaxShare == 5
\* entries recorded in SpecHistory
MaxHistory == 11

(***************************************************************************)
(* Values of the program.                                                  *)
(***************************************************************************)
\* Optional[...] is a sequence of length <= 1; None is the empty one
None == <<>>
Some(x) == <<x>>

\* Game.current_period: int = 1
current_period == 1

\* the player_ids of the GameCreate request, all of them known players
Roster == <<"p1", "p2">>
\* a player id that is in no box score of the game
Stranger == "p3"
PlayerIds == {"p1", "p2", Stranger}

\* PlayerStats(): every counter 0
PlayerStats ==
    [points |-> 0, rebounds |-> 0, offensive_rebounds |-> 0,
     defensive_rebounds |-> 0, assists |-> 0, steals |-> 0, blocks |-> 0,
     turnovers |-> 0, fouls |-> 0, fg_made |-> 0, fg_attempted |-> 0,
     three_pt_made |-> 0, three_pt_attempted |-> 0, ft_made |-> 0,
     ft_attempted |-> 0, plus_minus |-> 0, minutes_played |-> 0]

Counters == DOMAIN PlayerStats

\* GamePlayerStats(player_id=...): zero stats, no shots, no stat events
GamePlayerStats(player_id) ==
    [player_id |-> player_id, stats |-> PlayerStats, shots |-> <<>>,
     stat_events |-> <<>>]

\* the stat_type branches of record_stat, undo_last_stat, undo_specific_stat
ShotKinds == {"points_2", "points_3", "miss_2", "miss_3"}
FtKinds == {"ft_made", "ft_missed"}
ReboundParts == {"offensive_rebounds", "defensive_rebounds"}
SimpleKinds ==
    {"rebounds", "offensive_rebounds", "defensive_rebounds", "assists",
     "steals", "blocks", "turnovers", "fouls"}
StatKinds == ShotKinds \cup FtKinds \cup SimpleKinds \cup {"plus_minus", "minutes"}
\* the stat_type branches of adjust_stat
AdjustKinds == {"points", "fg_made", "three_pt_made", "ft_made"} \cup SimpleKinds

Max(a, b) == IF a >= b THEN a ELSE b

\* stats[k] = stats.get(k, 0) + d
Add(stats, k, d) == [stats EXCEPT ![k] = @ + d]
\* stats[k] = max(0, stats.get(k, 0) + d)
AddFloor(stats, k, d) == [stats EXCEPT ![k] = Max(0, @ + d)]

\* the list cut off at the first element with the id
RECURSIVE WithoutId_CutOff(_, _)
WithoutId_CutOff(seq, id) ==
    IF seq = <<>> \/ Head(seq).id = id THEN <<>>
    ELSE <<Head(seq)>> \o WithoutId_CutOff(Tail(seq), id)

\* [s for s in seq if s.get("id") != id]
RECURSIVE WithoutId(_, _)
WithoutId(seq, id) ==
    IF seq = <<>> THEN <<>>
    ELSE IF Head(seq).id = id THEN WithoutId(Tail(seq), id)
         ELSE <<Head(seq)>> \o WithoutId(Tail(seq), id)

\* seq.pop(i), i counted from 1
RemoveAt(seq, i) ==
    [j \in 1..(Len(seq) - 1) |-> IF j < i THEN seq[j] ELSE seq[j + 1]]

\* sum(ps.get("stats", {}).get("points", 0) for ps in player_stats)
RECURSIVE SumPoints(_)
SumPoints(player_stats) ==
    IF player_stats = <<>> THEN 0
    ELSE Head(player_stats).stats.points + SumPoints(Tail(player_stats))

\* for ps in player_stats: if ps["player_id"] == player_id: ... break
\* the position of the first box score of the player, 0 when there is none
FindPlayer(player_stats, player_id) ==
    LET hits == {i \in 1..Len(player_stats) :
                    player_stats[i].player_id = player_id}
    IN IF hits = {} THEN 0
       ELSE CHOOSE i \in hits : \A j \in hits : i <= j

(***************************************************************************)
(* The game document, as far as the handlers below read and write it.      *)
(***************************************************************************)
\* the ids of the documents of the user in db.players
Players == {"p1", "p2", Stranger}

\* create_game: one GamePlayerStats per requested id that db.players has, in
\* request order, an id as often as it is requested;
\* our_score: int = 0; status: str = "in_progress"; share_token:
\* Optional[str] = None; is_public: bool = False; the document has no
\* stat_history yet, which the handlers read as game.get("stat_history", [])
create_game(player_ids) ==
    LET found == SelectSeq(player_ids, LAMBDA player_id : player_id \in Players)
    IN [player_stats |-> [i \in 1..Len(found) |-> GamePlayerStats(found[i])],
        stat_history |-> <<>>,
        our_score |-> 0,
        status |-> "in_progress",
        share_token |-> None,
        is_public |-> FALSE]

\* db.games.update_one({"id": game_id}, {"$set": set})
UpdateOne(game, set) ==
    [f \in DOMAIN game |-> IF f \in DOMAIN set THEN set[f] ELSE game[f]]

\* what a handler answers and what it writes ("set" is empty when it raises)
Raise(detail) == [detail |-> detail, set |-> <<>>]
Ok(set) == [detail |-> "ok", set |-> set]

(***************************************************************************)
(* record_stat                                                             *)
(***************************************************************************)
\* the "Handle different stat types" chain, on the counters
RecordCounters(stats, stat_type, value) ==
    CASE stat_type = "points_2" ->
           Add(Add(Add(stats, "points", 2), "fg_made", 1), "fg_attempted", 1)
      [] stat_type = "points_3" ->
           Add(Add(Add(Add(Add(stats, "points", 3), "three_pt_made", 1),
               "three_pt_attempted", 1), "fg_made", 1), "fg_attempted", 1)
      [] stat_type = "ft_made" ->
           Add(Add(Add(stats, "points", 1), "ft_made", 1), "ft_attempted", 1)
      [] stat_type = "ft_missed" -> Add(stats, "ft_attempted", 1)
      [] stat_type = "miss_2" -> Add(stats, "fg_attempted", 1)
      [] stat_type = "miss_3" ->
           Add(Add(stats, "three_pt_attempted", 1), "fg_attempted", 1)
      [] stat_type \in SimpleKinds ->
           IF stat_type \in ReboundParts
           THEN Add(Add(stats, stat_type, value), "rebounds", value)
           ELSE Add(stats, stat_type, value)
      [] stat_type = "plus_minus" -> Add(stats, "plus_minus", value)
      [] stat_type = "minutes" -> Add(stats, "minutes_played", value)
      [] OTHER -> stats

\* the shot a two- or three-point stat with a shot_location appends
NewShot(stat, uuid) ==
    [id |-> uuid, x |-> stat.shot_location[1].x, y |-> stat.shot_location[1].y,
     made |-> stat.stat_type \in {"points_2", "points_3"},
     shot_type |-> IF stat.stat_type \in {"points_2", "miss_2"} THEN "2pt" ELSE "3pt",
     period |-> current_period]

\* a shot appended for every stat that has a shot_location, free throws and
\* counters too
MakesShot_AnyKind(stat) == stat.shot_location # None

\* if stat.shot_location: (in the four shot branches)
MakesShot(stat) == stat.stat_type \in ShotKinds /\ stat.shot_location # None

\* the free-throw and simple-counter branches append a stat event
MakesEvent(stat) == stat.stat_type \in FtKinds \cup SimpleKinds

NewEvent(stat, uuid) ==
    [id |-> uuid, stat_type |-> stat.stat_type,
     value |-> IF stat.stat_type \in FtKinds THEN 1 ELSE stat.value,
     period |-> current_period]

\* the body of the loop for the box score ps of the player
RecordOnPlayer(ps, stat, uuid) ==
    [ps EXCEPT
       !.stats = RecordCounters(@, stat.stat_type, stat.value),
       !.shots = IF MakesShot(stat) THEN Append(@, NewShot(stat, uuid)) ELSE @,
       !.stat_events = IF MakesEvent(stat) THEN Append(@, NewEvent(stat, uuid)) ELSE @]

\* the entry appended without the id of the shot
HistoryEntry_NoShot(stat, uuid) ==
    [player_id |-> stat.player_id, stat_type |-> stat.stat_type,
     value |-> stat.value, shot_id |-> None]

\* stat_history.append({...})
HistoryEntry(stat, uuid) ==
    [player_id |-> stat.player_id, stat_type |-> stat.stat_type,
     value |-> stat.value,
     shot_id |-> IF MakesShot(stat) THEN Some(uuid) ELSE None]

\* what the handler writes: the box scores with the stat recorded on the
\* i-th (none for i = 0), their points summed, the history with its new entry
RecordedSet(game, stat, uuid, i) ==
    LET player_stats ==
            IF i = 0 THEN game.player_stats
            ELSE [game.player_stats EXCEPT ![i] = RecordOnPlayer(@, stat, uuid)]
    IN [player_stats |-> player_stats,
        our_score |-> SumPoints(player_stats),
        stat_history |-> IF i = 0 THEN game.stat_history
                         ELSE Append(game.stat_history, HistoryEntry(stat, uuid))]

\* record_stat without "if not player_found: raise": an unknown player is
\* skipped and the document written back, as delete_shot does
record_stat_Silent(game, stat, uuid) ==
    Ok(RecordedSet(game, stat, uuid, FindPlayer(game.player_stats, stat.player_id)))

record_stat(game, stat, uuid) ==
    LET i == FindPlayer(game.player_stats, stat.player_id) IN
    IF i = 0 THEN Raise("Player not in this game")
    ELSE Ok(RecordedSet(game, stat, uuid, i))

(***************************************************************************)
(* adjust_stat                                                             *)
(***************************************************************************)
\* the attempted counter and the points changed without max(0, ...)
AdjustMade_NoFloor(stats, attempted, worth, d) ==
    Add(Add(stats, attempted, d), "points", worth * d)

\* the made counter with its attempted counter and the points it is worth
AdjustMade(stats, attempted, worth, d) ==
    IF d > 0
    THEN Add(Add(stats, attempted, d), "points", worth * d)
    ELSE AddFloor(AddFloor(stats, attempted, d), "points", worth * d)

AdjustCounters(stats, stat_type, d) ==
    CASE stat_type = "points" -> AddFloor(stats, "points", d)
      [] stat_type = "fg_made" ->
           AdjustMade(AddFloor(stats, "fg_made", d), "fg_attempted", 2, d)
      [] stat_type = "three_pt_made" ->
           LET made == AddFloor(AddFloor(stats, "three_pt_made", d), "fg_made", d)
               both == IF d > 0
                       THEN Add(made, "three_pt_attempted", d)
                       ELSE AddFloor(made, "three_pt_attempted", d)
           IN AdjustMade(both, "fg_attempted", 3, d)
      [] stat_type = "ft_made" ->
           AdjustMade(AddFloor(stats, "ft_made", d), "ft_attempted", 1, d)
      [] stat_type \in SimpleKinds ->
           IF stat_type \in ReboundParts
           THEN AddFloor(AddFloor(stats, stat_type, d), "rebounds", d)
           ELSE AddFloor(stats, stat_type, d)
      [] OTHER -> stats

\* the box scores with the adjustment made on the i-th
AdjustedStats(game, adjustment, i) ==
    [game.player_stats EXCEPT
       ![i].stats = AdjustCounters(@, adjustment.stat_type, adjustment.adjustment)]

\* adjust_stat writing the box scores without "our_score": total_points
adjust_stat_StaleScore(game, adjustment) ==
    LET i == FindPlayer(game.player_stats, adjustment.player_id) IN
    IF i = 0 THEN Raise("Player not in this game")
    ELSE Ok([player_stats |-> AdjustedStats(game, adjustment, i)])

\* adjust_stat appending an entry to stat_history, as record_stat does
adjust_stat_Logged(game, adjustment) ==
    LET i == FindPlayer(game.player_stats, adjustment.player_id) IN
    IF i = 0 THEN Raise("Player not in this game")
    ELSE LET player_stats == AdjustedStats(game, adjustment, i)
         IN Ok([player_stats |-> player_stats,
                our_score |-> SumPoints(player_stats),
                stat_history |->
                    Append(game.stat_history,
                           [player_id |-> adjustment.player_id,
                            stat_type |-> adjustment.stat_type,
                            value |-> adjustment.adjustment,
                            shot_id |-> None])])

adjust_stat(game, adjustment) ==
    LET i == FindPlayer(game.player_stats, adjustment.player_id) IN
    IF i = 0 THEN Raise("Player not in this game")
    ELSE LET player_stats == AdjustedStats(game, adjustment, i)
         IN Ok([player_stats |-> player_stats,
                our_score |-> SumPoints(player_stats)])

(***************************************************************************)
(* undo_last_stat                                                          *)
(***************************************************************************)
\* the "Reverse the last stat" chain: every branch takes 1 (2 or 3 points)
UndoLastCounters(stats, stat_type) ==
    CASE stat_type = "points_2" ->
           AddFloor(AddFloor(AddFloor(stats, "points", -2), "fg_made", -1),
                    "fg_attempted", -1)
      [] stat_type = "points_3" ->
           AddFloor(AddFloor(AddFloor(AddFloor(AddFloor(stats, "points", -3),
               "three_pt_made", -1), "three_pt_attempted", -1), "fg_made", -1),
               "fg_attempted", -1)
      [] stat_type = "ft_made" ->
           AddFloor(AddFloor(AddFloor(stats, "points", -1), "ft_made", -1),
                    "ft_attempted", -1)
      [] stat_type = "ft_missed" -> AddFloor(stats, "ft_attempted", -1)
      [] stat_type = "miss_2" -> AddFloor(stats, "fg_attempted", -1)
      [] stat_type = "miss_3" ->
           AddFloor(AddFloor(stats, "three_pt_attempted", -1), "fg_attempted", -1)
      [] stat_type \in SimpleKinds ->
           IF stat_type \in ReboundParts
           THEN AddFloor(AddFloor(stats, stat_type, -1), "rebounds", -1)
           ELSE AddFloor(stats, stat_type, -1)
      [] OTHER -> stats

UndoLastOnPlayer(ps, last_stat) ==
    [ps EXCEPT
       !.stats = UndoLastCounters(@, last_stat.stat_type),
       !.shots = IF last_stat.shot_id # None
                 THEN WithoutId(@, last_stat.shot_id[1]) ELSE @]

\* last_stat = stat_history.pop() and what follows it
UndoLastSet(game) ==
    LET n == Len(game.stat_history)
        last_stat == game.stat_history[n]
        i == FindPlayer(game.player_stats, last_stat.player_id)
        player_stats ==
            IF i = 0 THEN game.player_stats
            ELSE [game.player_stats EXCEPT ![i] = UndoLastOnPlayer(@, last_stat)]
    IN [player_stats |-> player_stats,
        our_score |-> SumPoints(player_stats),
        stat_history |-> SubSeq(game.stat_history, 1, n - 1)]

\* undo_last_stat without "if not stat_history: raise": pop() of the empty
\* list raises IndexError, which the server answers with status 500
undo_last_stat_NoGuard(game) ==
    IF game.stat_history = <<>> THEN Raise("Internal Server Error")
    ELSE Ok(UndoLastSet(game))

undo_last_stat(game) ==
    IF game.stat_history = <<>> THEN Raise("No stats to undo")
    ELSE Ok(UndoLastSet(game))

(***************************************************************************)
(* undo_specific_stat                                                      *)
(***************************************************************************)
\* the "Reverse the stat" chain: the counter branches take the entry's value
UndoSpecificCounters(stats, stat_type, value) ==
    CASE stat_type \in {"points_2", "miss_2"} ->
           LET made == IF stat_type = "points_2"
                       THEN AddFloor(AddFloor(stats, "points", -2), "fg_made", -1)
                       ELSE stats
           IN AddFloor(made, "fg_attempted", -1)
      [] stat_type \in {"points_3", "miss_3"} ->
           LET made == IF stat_type = "points_3"
                       THEN AddFloor(AddFloor(AddFloor(stats, "points", -3),
                                "fg_made", -1), "three_pt_made", -1)
                       ELSE stats
           IN AddFloor(AddFloor(made, "fg_attempted", -1), "three_pt_attempted", -1)
      [] stat_type = "ft_made" ->
           AddFloor(AddFloor(AddFloor(stats, "points", -1), "ft_made", -1),
                    "ft_attempted", -1)
      [] stat_type = "ft_missed" -> AddFloor(stats, "ft_attempted", -1)
      [] stat_type \in ReboundParts ->
           AddFloor(AddFloor(stats, stat_type, -value), "rebounds", -value)
      [] stat_type \in {"assists", "steals", "blocks", "turnovers", "fouls"} ->
           AddFloor(stats, stat_type, -value)
      [] OTHER -> stats

\* entry.get("stat_event_id"): None for an entry without that key
StatEventId(entry) ==
    IF "stat_event_id" \in DOMAIN entry THEN entry.stat_event_id ELSE None

UndoSpecificOnPlayer(ps, entry) ==
    [ps EXCEPT
       !.stats = UndoSpecificCounters(@, entry.stat_type, entry.value),
       !.shots = IF entry.stat_type \in ShotKinds /\ entry.shot_id # None
                 THEN WithoutId(@, entry.shot_id[1]) ELSE @,
       !.stat_events = IF StatEventId(entry) # None
                       THEN WithoutId(@, StatEventId(entry)[1]) ELSE @]

\* entry_index counts from the most recent entry, as get_undo_history shows them
\* the entry at actual_index (counted from 0) reversed and removed
UndoSpecificSet(game, entry_index) ==
    LET actual_index == Len(game.stat_history) - 1 - entry_index
        entry == game.stat_history[actual_index + 1]
        i == FindPlayer(game.player_stats, entry.player_id)
        player_stats ==
            IF i = 0 THEN game.player_stats
            ELSE [game.player_stats EXCEPT ![i] = UndoSpecificOnPlayer(@, entry)]
    IN [player_stats |-> player_stats,
        stat_history |-> RemoveAt(game.stat_history, actual_index + 1),
        our_score |-> SumPoints(player_stats)]

\* undo_specific_stat with the bound written len(stat_history) - 1
undo_specific_stat_OffByOne(game, entry_index) ==
    IF entry_index < 0 \/ entry_index >= Len(game.stat_history) - 1
    THEN Raise("Invalid entry index")
    ELSE Ok(UndoSpecificSet(game, entry_index))

undo_specific_stat(game, entry_index) ==
    IF entry_index < 0 \/ entry_index >= Len(game.stat_history)
    THEN Raise("Invalid entry index")
    ELSE Ok(UndoSpecificSet(game, entry_index))

(***************************************************************************)
(* get_undo_history                                                        *)
(***************************************************************************)
\* the 10 of stat_history[-10:]
HistoryLimit == 10

\* seq[::-1]
Reversed(seq) == [k \in 1..Len(seq) |-> seq[Len(seq) + 1 - k]]

\* the first 10 entries instead of the last 10, most recent first
get_undo_history_Oldest(game) ==
    Reversed(SubSeq(game.stat_history, 1,
                    IF Len(game.stat_history) < HistoryLimit
                    THEN Len(game.stat_history) ELSE HistoryLimit))

\* {"history": stat_history[-10:][::-1]}
get_undo_history(game) ==
    Reversed(SubSeq(game.stat_history,
                    Max(1, Len(game.stat_history) - HistoryLimit + 1),
                    Len(game.stat_history)))

(***************************************************************************)
(* delete_shot                                                             *)
(***************************************************************************)
\* the counters of the shot taken back without max(0, ...)
DeleteShotCounters_NoFloor(stats, shot) ==
    CASE shot.shot_type = "2pt" ->
           LET att == Add(stats, "fg_attempted", -1)
           IN IF shot.made
              THEN Add(Add(att, "fg_made", -1), "points", -2)
              ELSE att
      [] shot.shot_type = "3pt" ->
           LET att == Add(Add(stats, "three_pt_attempted", -1), "fg_attempted", -1)
           IN IF shot.made
              THEN Add(Add(Add(att, "three_pt_made", -1), "fg_made", -1),
                       "points", -3)
              ELSE att
      [] OTHER -> stats

\* "Adjust stats based on shot type"
DeleteShotCounters(stats, shot) ==
    CASE shot.shot_type = "2pt" ->
           LET att == AddFloor(stats, "fg_attempted", -1)
           IN IF shot.made
              THEN AddFloor(AddFloor(att, "fg_made", -1), "points", -2)
              ELSE att
      [] shot.shot_type = "3pt" ->
           LET att == AddFloor(AddFloor(stats, "three_pt_attempted", -1),
                               "fg_attempted", -1)
           IN IF shot.made
              THEN AddFloor(AddFloor(AddFloor(att, "three_pt_made", -1),
                                     "fg_made", -1), "points", -3)
              ELSE att
      [] OTHER -> stats

\* shot_index counts from 0; a player without box score is skipped silently
DeleteShotSet(game, i, shot_index) ==
    LET player_stats ==
            IF i = 0 THEN game.player_stats
            ELSE [game.player_stats EXCEPT
                    ![i].stats = DeleteShotCounters(@,
                                    game.player_stats[i].shots[shot_index + 1]),
                    ![i].shots = RemoveAt(@, shot_index + 1)]
    IN [player_stats |-> player_stats,
        our_score |-> SumPoints(player_stats)]

\* delete_shot with the bound written len(shots) - 1
delete_shot_OffByOne(game, player_id, shot_index) ==
    LET i == FindPlayer(game.player_stats, player_id) IN
    IF i # 0 /\ (shot_index < 0 \/ shot_index >= Len(game.player_stats[i].shots) - 1)
    THEN Raise("Shot not found")
    ELSE Ok(DeleteShotSet(game, i, shot_index))

delete_shot(game, player_id, shot_index) ==
    LET i == FindPlayer(game.player_stats, player_id) IN
    IF i # 0 /\ (shot_index < 0 \/ shot_index >= Len(game.player_stats[i].shots))
    THEN Raise("Shot not found")
    ELSE Ok(DeleteShotSet(game, i, shot_index))

(***************************************************************************)
(* update_shot_location                                                    *)
(***************************************************************************)
\* update_shot_location storing the moved shot as a made one
MovedShot_Remade(shot, shot_update) ==
    [shot EXCEPT !.x = shot_update.x, !.y = shot_update.y, !.made = TRUE]

\* shots[shot_index]["x"] = shot_update.x; shots[shot_index]["y"] = shot_update.y
MovedShot(shot, shot_update) ==
    [shot EXCEPT !.x = shot_update.x, !.y = shot_update.y]

\* shot_index counts from 0; a player without box score is skipped silently;
\* only player_stats is written
MovedSet(game, i, shot_index, shot_update) ==
    [player_stats |->
        IF i = 0 THEN game.player_stats
        ELSE [game.player_stats EXCEPT
                ![i].shots[shot_index + 1] = MovedShot(@, shot_update)]]

update_shot_location(game, player_id, shot_index, shot_update) ==
    LET i == FindPlayer(game.player_stats, player_id) IN
    IF i # 0 /\ (shot_index < 0 \/ shot_index >= Len(game.player_stats[i].shots))
    THEN Raise("Shot not found")
    ELSE Ok(MovedSet(game, i, shot_index, shot_update))

(***************************************************************************)
(* update_game and the subscription of the user who owns the game          *)
(***************************************************************************)
tier_levels == [free |-> 0, pro |-> 1, team |-> 2]
Tiers == DOMAIN tier_levels

\* User(): subscription_tier: str = "free"
User == [subscription_tier |-> "free"]

\* for a user who is not a master admin and whose subscription is active
\* and has not expired
check_subscription(u, required_tier) ==
    tier_levels[u.subscription_tier] >= tier_levels[required_tier]

\* game_data.dict(exclude_unset=True): a field that was sent, by its name
Sent(name, field) ==
    IF field = None THEN <<>> ELSE [f \in {name} |-> field[1]]

\* ps["stats"]["minutes_played"] = game_data.player_minutes[player_id], for
\* every box score whose player the mapping names
WithMinutes(player_stats, player_minutes) ==
    [i \in 1..Len(player_stats) |->
       IF player_stats[i].player_id \in DOMAIN player_minutes
       THEN [player_stats[i] EXCEPT
               !.stats.minutes_played = player_minutes[player_stats[i].player_id]]
       ELSE player_stats[i]]

\* player_minutes is a mapping of player ids to seconds, <<>> when not sent
update_game(game, game_data, u) ==
    IF game.status = "completed" /\ ~check_subscription(u, "pro")
    THEN Raise("Pro subscription required to edit completed games")
    ELSE Ok(Sent("our_score", game_data.our_score)
            @@ Sent("status", game_data.status)
            @@ (IF DOMAIN game_data.player_minutes # {}
                THEN [player_stats |->
                        WithMinutes(game.player_stats, game_data.player_minutes)]
                ELSE <<>>))

\* test_upgrade_subscription: what it answers and what it sets in db.users
test_upgrade_subscription(tier) ==
    IF tier \notin Tiers THEN Raise("Invalid tier")
    ELSE Ok([subscription_tier |-> tier])

(***************************************************************************)
(* create_share_link, revoke_share_link and get_public_game                *)
(***************************************************************************)
\* create_share_link issuing the fresh token whatever the game holds
create_share_link_NewToken(game, u, token) ==
    IF ~check_subscription(u, "pro")
    THEN Raise("Pro subscription required for live sharing")
    ELSE Ok([share_token |-> Some(token), is_public |-> TRUE])

\* token is what secrets.token_urlsafe(16) would return; it is used only
\* when the game holds no share_token
create_share_link(game, u, token) ==
    IF ~check_subscription(u, "pro")
    THEN Raise("Pro subscription required for live sharing")
    ELSE LET share_token == IF game.share_token # None
                            THEN game.share_token ELSE Some(token)
         IN Ok([share_token |-> share_token, is_public |-> TRUE])

revoke_share_link(game) == Ok([is_public |-> FALSE])

\* db.games.find_one({"share_token": share_token, "is_public": True})
get_public_game(game, share_token) ==
    IF game.share_token = Some(share_token) /\ game.is_public
    THEN Ok(<<>>)
    ELSE Raise("Game not found or not shared")

(***************************************************************************)
(* The state: the stored game document, the document of its owner, the     *)
(* identifier generator, the answer to the last request, and the requests  *)
(* in flight.                                                              *)
(***************************************************************************)
VARIABLES
    game,       \* the document of the game in db.games
    user,       \* the document of the game's owner in db.users
    next_uuid,  \* uuid.uuid4(): the next fresh identifier
    last,       \* handler and detail of the last answer ("ok" or the error)
    ops,        \* how many requests have been answered
    inflight    \* per connection: a request between its find_one and its update_one

vars == <<game, user, next_uuid, last, ops, inflight>>

Connections == 1..MaxConnections

Idle == [pc |-> "idle"]

Init ==
    /\ game = create_game(Roster)
    /\ user = User
    /\ next_uuid = 1
    /\ last = [op |-> "create_game", detail |-> "ok"]
    /\ ops = 0
    /\ inflight = [c \in Connections |-> Idle]

(***************************************************************************)
(* The requests.                                                           *)
(***************************************************************************)
\* every StatUpdate the claims are stated for
AnyValues == {-1, 1, 2}
Locations == {None, Some([x |-> 30, y |-> 70])}
StatsOf(player_id) ==
    [player_id : {player_id}, stat_type : StatKinds, value : AnyValues,
     shot_location : Locations]

\* the requests the behaviours are built from: a shot or free throw is sent
\* with the default value 1, a counter without shot_location; "assists" stands
\* for the five counters every handler lists together (assists, steals,
\* blocks, turnovers, fouls)
SentKinds == StatKinds \ {"steals", "blocks", "turnovers", "fouls"}
StatsWith(players, kinds, values) ==
    [player_id : players, stat_type : kinds \cap (ShotKinds \cup FtKinds),
     value : {1}, shot_location : Locations]
    \cup [player_id : players, stat_type : kinds \ (ShotKinds \cup FtKinds),
          value : values, shot_location : {None}]
AdjustmentsWith(kinds, deltas) ==
    [player_id : PlayerIds, stat_type : kinds, adjustment : deltas]

\* stat_type is any str: two strings no branch of record_stat names
UnknownKinds == {"points", "dunk"}
UnknownStatsOf(player_id) ==
    [player_id : {player_id}, stat_type : UnknownKinds, value : AnyValues,
     shot_location : Locations]

Values == {-1, 1}
Deltas == {-5, -1, 1}
StatInputs == StatsWith(PlayerIds, SentKinds, Values)
Adjustments ==
    AdjustmentsWith(AdjustKinds \ {"steals", "blocks", "turnovers", "fouls"}, Deltas)
Indexes == -1..MaxOps

\* GameCreate.player_ids: up to two ids, each of a player or of none
RequestedIds == {"p1", "p2", "p9"}
GameCreates ==
    {<<>>} \cup {<<a>> : a \in RequestedIds}
    \cup {<<a, b>> : a \in RequestedIds, b \in RequestedIds}

\* ShotUpdate: where a shot is moved to
ShotUpdates == {[x |-> 10, y |-> 20]}
ShotIndexes == -1..(MaxEdits - 1)

\* the GameUpdate requests: each of our_score, status and player_minutes is
\* sent or not, and at least one of them is
GameUpdates ==
    [our_score : {None, Some(5)},
     status : {None, Some("completed"), Some("in_progress")},
     player_minutes : {<<>>, [player_id \in {"p1"} |-> 60]}]
    \ {[our_score |-> None, status |-> None, player_minutes |-> <<>>]}
\* the values secrets.token_urlsafe(16) may return, and the tokens a viewer
\* may ask for: those and one that was never issued
Tokens == {"t1", "t2"}
RequestedTokens == Tokens \cup {"t9"}
\* the tier parameter of test_upgrade_subscription
TierInputs == Tiers \cup {"gold"}

(***************************************************************************)
(* One request handled from its find_one to its answer, no other request   *)
(* in between.                                                             *)
(***************************************************************************)
\* the handler answered r: its $set is stored, its detail is the answer
Answer(op, r) ==
    /\ last' = [op |-> op, detail |-> r.detail]
    /\ game' = UpdateOne(game, r.set)
    /\ ops' = ops + 1
    /\ UNCHANGED <<inflight, user>>

RecordStat(stat) ==
    /\ Answer("record_stat", record_stat(game, stat, next_uuid))
    /\ next_uuid' = next_uuid + 1

AdjustStat(adjustment) ==
    /\ Answer("adjust_stat", adjust_stat(game, adjustment))
    /\ UNCHANGED next_uuid

UndoLastStat ==
    /\ Answer("undo_last_stat", undo_last_stat(game))
    /\ UNCHANGED next_uuid

UndoSpecificStat(entry_index) ==
    /\ Answer("undo_specific_stat", undo_specific_stat(game, entry_index))
    /\ UNCHANGED next_uuid

DeleteShot(player_id, shot_index) ==
    /\ Answer("delete_shot", delete_shot(game, player_id, shot_index))
    /\ UNCHANGED next_uuid

UpdateShotLocation(player_id, shot_index, shot_update) ==
    /\ Answer("update_shot_location",
              update_shot_location(game, player_id, shot_index, shot_update))
    /\ UNCHANGED next_uuid

UpdateGame(game_data) ==
    /\ Answer("update_game", update_game(game, game_data, user))
    /\ UNCHANGED next_uuid

\* await db.users.update_one({"id": user["id"]}, {"$set": ...})
TestUpgradeSubscription(tier) ==
    LET r == test_upgrade_subscription(tier)
    IN /\ last' = [op |-> "test_upgrade_subscription", detail |-> r.detail]
       /\ user' = UpdateOne(user, r.set)
       /\ ops' = ops + 1
       /\ UNCHANGED <<game, next_uuid, inflight>>

CreateShareLink(token) ==
    /\ Answer("create_share_link", create_share_link(game, user, token))
    /\ UNCHANGED next_uuid

RevokeShareLink ==
    /\ Answer("revoke_share_link", revoke_share_link(game))
    /\ UNCHANGED next_uuid

GetPublicGame(share_token) ==
    /\ Answer("get_public_game", get_public_game(game, share_token))
    /\ UNCHANGED next_uuid

(***************************************************************************)
(* Spec: any of the five live-edit requests, one at a time.                *)
(***************************************************************************)
Record ==
    /\ ops < MaxOps
    /\ \E stat \in StatInputs : RecordStat(stat)

Adjust ==
    /\ ops < MaxOps
    /\ \E adjustment \in Adjustments : AdjustStat(adjustment)

UndoLast ==
    /\ ops < MaxOps
    /\ UndoLastStat

UndoAt ==
    /\ ops < MaxOps
    /\ \E entry_index \in Indexes : UndoSpecificStat(entry_index)

Delete ==
    /\ ops < MaxOps
    /\ \E player_id \in PlayerIds, shot_index \in Indexes :
         DeleteShot(player_id, shot_index)

Next == Record \/ Adjust \/ UndoLast \/ UndoAt \/ Delete

Spec == Init /\ [][Next]_vars

(***************************************************************************)
(* SpecTrip: stats of rostered players with values >= 1 are recorded, then *)
(* undone from the tail; once an undo was asked for nothing is recorded.   *)
(***************************************************************************)
TripStats == StatsWith({"p1", "p2"}, SentKinds, {1, 2})

TripRecord ==
    /\ last.op # "undo_last_stat"
    /\ Len(game.stat_history) < MaxTrip
    /\ \E stat \in TripStats : RecordStat(stat)

TripUndo ==
    /\ ops < 2 * MaxTrip
    /\ UndoLastStat

NextTrip == TripRecord \/ TripUndo

SpecTrip == Init /\ [][NextTrip]_vars

(***************************************************************************)
(* SpecOrder: stats of rostered players with value 1, of every kind but    *)
(* plus_minus and minutes, are recorded, then undone by index in any       *)
(* order; once an undo was asked for nothing is recorded.                  *)
(***************************************************************************)
OrderStats ==
    StatsWith({"p1", "p2"}, SentKinds \ {"plus_minus", "minutes"}, {1})

OrderRecord ==
    /\ last.op # "undo_specific_stat"
    /\ Len(game.stat_history) < MaxTrip
    /\ \E stat \in OrderStats : RecordStat(stat)

OrderUndo ==
    /\ ops < 2 * MaxTrip
    /\ \E entry_index \in 0..(MaxTrip - 1) : UndoSpecificStat(entry_index)

NextOrder == OrderRecord \/ OrderUndo

SpecOrder == Init /\ [][NextOrder]_vars

(***************************************************************************)
(* SpecHistory: up to MaxHistory stats are recorded, the undo history is   *)
(* read, and one of the entries is undone by its index.                    *)
(***************************************************************************)
HistoryStats == StatsWith({"p1"}, {"assists", "steals"}, {1})

HistoryRecord ==
    /\ last.op \in {"create_game", "record_stat"}
    /\ Len(game.stat_history) < MaxHistory
    /\ \E stat \in HistoryStats : RecordStat(stat)

GetUndoHistory ==
    /\ last.op = "record_stat"
    /\ Answer("get_undo_history", Ok(<<>>))
    /\ UNCHANGED next_uuid

HistoryUndo ==
    /\ last.op = "get_undo_history"
    /\ \E entry_index \in 0..MaxHistory : UndoSpecificStat(entry_index)

NextHistory == HistoryRecord \/ GetUndoHistory \/ HistoryUndo

SpecHistory == Init /\ [][NextHistory]_vars

(***************************************************************************)
(* SpecChart: two-point makes and three-point misses are recorded, with    *)
(* and without a location, shots are deleted from the chart and ledger     *)
(* entries undone; nothing is adjusted.                                    *)
(***************************************************************************)
ChartStats == StatsWith({"p1", "p2"}, {"points_2", "miss_3"}, {1})

ChartRecord ==
    /\ ops < MaxChart
    /\ \E stat \in ChartStats : RecordStat(stat)

ChartDelete ==
    /\ ops < MaxChart
    /\ \E player_id \in {"p1", "p2"}, shot_index \in 0..1 :
         DeleteShot(player_id, shot_index)

ChartUndoLast ==
    /\ ops < MaxChart
    /\ UndoLastStat

ChartUndoAt ==
    /\ ops < MaxChart
    /\ \E entry_index \in 0..(MaxChart - 1) : UndoSpecificStat(entry_index)

NextChart == ChartRecord \/ ChartDelete \/ ChartUndoLast \/ ChartUndoAt

SpecChart == Init /\ [][NextChart]_vars

(***************************************************************************)
(* SpecAdjust: record, undo from the tail and adjust, with values >= 1 and *)
(* never the total-rebound kind.                                           *)
(***************************************************************************)
PartStats == StatsWith({"p1", "p2"}, SentKinds \ {"rebounds"}, {1, 2})
PartAdjustments == {a \in Adjustments : a.stat_type # "rebounds"}

PartRecord ==
    /\ ops < MaxOps
    /\ \E stat \in PartStats : RecordStat(stat)

PartAdjust ==
    /\ ops < MaxOps
    /\ \E adjustment \in PartAdjustments : AdjustStat(adjustment)

NextAdjust == PartRecord \/ PartAdjust \/ UndoLast

SpecAdjust == Init /\ [][NextAdjust]_vars

(***************************************************************************)
(* SpecEdit: the five live-edit requests with few different stats and      *)
(* adjustments, so that a claim can be asked of every request in every     *)
(* state.                                                                  *)
(***************************************************************************)
EditStats ==
    StatsWith({"p1", "p2"}, {"points_2", "points_3", "miss_3", "offensive_rebounds"},
              {1})
EditAdjustments ==
    [player_id : {"p1", Stranger}, stat_type : {"fg_made", "rebounds"},
     adjustment : {-5, 1}]

EditRecord ==
    /\ ops < MaxOps
    /\ \E stat \in EditStats : RecordStat(stat)

EditAdjust ==
    /\ ops < MaxOps
    /\ \E adjustment \in EditAdjustments : AdjustStat(adjustment)

NextEdit == EditRecord \/ EditAdjust \/ UndoLast \/ UndoAt \/ Delete

SpecEdit == Init /\ [][NextEdit]_vars

(***************************************************************************)
(* SpecShot: shots with a location are recorded, moved, deleted and        *)
(* undone, so every ledger entry carries the identifier of a shot.         *)
(***************************************************************************)
ShotStats ==
    [player_id : {"p1", "p2"}, stat_type : {"points_3", "miss_2"}, value : {1},
     shot_location : {Some([x |-> 30, y |-> 70])}]

ShotRecord ==
    /\ ops < MaxEdits
    /\ \E stat \in ShotStats : RecordStat(stat)

ShotMove ==
    /\ ops < MaxEdits
    /\ \E player_id \in {"p1", Stranger}, shot_index \in ShotIndexes,
          shot_update \in ShotUpdates :
         UpdateShotLocation(player_id, shot_index, shot_update)

ShotDelete ==
    /\ ops < MaxEdits
    /\ DeleteShot("p1", 0)

ShotUndoLast ==
    /\ ops < MaxEdits
    /\ UndoLastStat

ShotUndoAt ==
    /\ ops < MaxEdits
    /\ \E entry_index \in 0..1 : UndoSpecificStat(entry_index)

NextShot == ShotRecord \/ ShotMove \/ ShotDelete \/ ShotUndoLast \/ ShotUndoAt

SpecShot == Init /\ [][NextShot]_vars

(***************************************************************************)
(* SpecCreate: a game is created for any requested player_ids, then stats  *)
(* are recorded and undone.                                                *)
(***************************************************************************)
InitCreate ==
    /\ \E player_ids \in GameCreates : game = create_game(player_ids)
    /\ user = User
    /\ next_uuid = 1
    /\ last = [op |-> "create_game", detail |-> "ok"]
    /\ ops = 0
    /\ inflight = [c \in Connections |-> Idle]

CreateStats == StatsWith({"p1", "p2"}, {"points_2", "assists"}, {1})

CreateRecord ==
    /\ ops < MaxOps
    /\ \E stat \in CreateStats : RecordStat(stat)

NextCreate == CreateRecord \/ UndoLast

SpecCreate == InitCreate /\ [][NextCreate]_vars

(***************************************************************************)
(* SpecGame: the owner updates the game, changes subscription and records  *)
(* stats, one request at a time.                                           *)
(***************************************************************************)
GameStats == StatsWith({"p1", "p2"}, {"points_2", "minutes"}, {1})

GameRecord ==
    /\ ops < MaxOps
    /\ \E stat \in GameStats : RecordStat(stat)

Update ==
    /\ ops < MaxOps
    /\ \E game_data \in GameUpdates : UpdateGame(game_data)

Upgrade ==
    /\ ops < MaxOps
    /\ \E tier \in TierInputs : TestUpgradeSubscription(tier)

NextGame == GameRecord \/ Update \/ Upgrade

SpecGame == Init /\ [][NextGame]_vars

(***************************************************************************)
(* SpecShare: the owner changes subscription, shares the game and revokes  *)
(* the link; anyone asks for the game by a token.                          *)
(***************************************************************************)
Share ==
    /\ ops < MaxShare
    /\ \E token \in Tokens : CreateShareLink(token)

Revoke ==
    /\ ops < MaxShare
    /\ RevokeShareLink

View ==
    /\ ops < MaxShare
    /\ \E share_token \in RequestedTokens : GetPublicGame(share_token)

ShareUpgrade ==
    /\ ops < MaxShare
    /\ \E tier \in TierInputs : TestUpgradeSubscription(tier)

NextShare == Share \/ Revoke \/ View \/ ShareUpgrade

SpecShare == Init /\ [][NextShare]_vars

(***************************************************************************)
(* SpecConc: each connection sends one request; a handler runs from its    *)
(* find_one to its update_one, and between the two awaits the handlers of  *)
(* the other connections may read and write the same document.             *)
(***************************************************************************)
ConcRequests ==
    {[op |-> "record_stat", stat |-> stat] :
        stat \in {[player_id |-> "p1", stat_type |-> "points_2", value |-> 1,
                   shot_location |-> Some([x |-> 30, y |-> 70])],
                  [player_id |-> "p1", stat_type |-> "assists", value |-> 1,
                   shot_location |-> None],
                  [player_id |-> "p2", stat_type |-> "points_3", value |-> 1,
                   shot_location |-> None],
                  [player_id |-> Stranger, stat_type |-> "assists", value |-> 1,
                   shot_location |-> None]}}
    \cup {[op |-> "adjust_stat",
           adjustment |-> [player_id |-> "p1", stat_type |-> "points",
                           adjustment |-> 1]],
          [op |-> "undo_last_stat"],
          [op |-> "undo_specific_stat", entry_index |-> 0],
          [op |-> "delete_shot", player_id |-> "p1", shot_index |-> 0]}

\* the handler of the request, run on the document g it read
Handle(req, g, uuid) ==
    CASE req.op = "record_stat" -> record_stat(g, req.stat, uuid)
      [] req.op = "adjust_stat" -> adjust_stat(g, req.adjustment)
      [] req.op = "undo_last_stat" -> undo_last_stat(g)
      [] req.op = "undo_specific_stat" -> undo_specific_stat(g, req.entry_index)
      [] req.op = "delete_shot" -> delete_shot(g, req.player_id, req.shot_index)
      [] req.op = "update_shot_location" ->
           update_shot_location(g, req.player_id, req.shot_index,
                                req.shot_update)

\* a handler that reads the document again when it writes, as one atomic
\* find-and-modify would
WrittenAtomic(c) ==
    Handle(inflight[c].req, game, inflight[c].uuid).set

\* the $set of the handler's update_one: computed from the document it read
Written(c) ==
    Handle(inflight[c].req, inflight[c].read, inflight[c].uuid).set

\* game = await db.games.find_one(...), and the handler's checks on it
Begin(c, req) ==
    /\ inflight[c].pc = "idle"
    /\ LET r == Handle(req, game, next_uuid)
       IN IF r.detail = "ok"
          THEN /\ inflight' = [inflight EXCEPT ![c] =
                      [pc |-> "read", req |-> req, read |-> game,
                       uuid |-> next_uuid]]
               /\ UNCHANGED <<last, ops>>
          ELSE /\ inflight' = [inflight EXCEPT ![c] =
                      [pc |-> "raised", req |-> req, read |-> game,
                       uuid |-> next_uuid]]
               /\ last' = [op |-> req.op, detail |-> r.detail]
               /\ ops' = ops + 1
    /\ next_uuid' = next_uuid + 1
    /\ UNCHANGED <<game, user>>

\* await db.games.update_one(...), and the answer
Finish(c) ==
    /\ inflight[c].pc = "read"
    /\ game' = UpdateOne(game, Written(c))
    /\ inflight' = [inflight EXCEPT ![c].pc = "done"]
    /\ last' = [op |-> inflight[c].req.op, detail |-> "ok"]
    /\ ops' = ops + 1
    /\ UNCHANGED <<next_uuid, user>>

Read == \E c \in Connections, req \in ConcRequests : Begin(c, req)

Write == \E c \in Connections : Finish(c)

NextConc == Read \/ Write

SpecConc == Init /\ [][NextConc]_vars

(***************************************************************************)
(* SpecRace: one shot is recorded while no handler runs, then each         *)
(* connection sends one request, moves of a shot among them.               *)
(***************************************************************************)
RaceRequests ==
    ConcRequests
    \cup {[op |-> "update_shot_location", player_id |-> player_id,
           shot_index |-> 0, shot_update |-> shot_update] :
              player_id \in {"p1", Stranger}, shot_update \in ShotUpdates}

RaceRecord ==
    /\ ops = 0
    /\ \A c \in Connections : inflight[c].pc = "idle"
    /\ RecordStat([player_id |-> "p1", stat_type |-> "points_2", value |-> 1,
                   shot_location |-> Some([x |-> 30, y |-> 70])])

RaceRead == \E c \in Connections, req \in RaceRequests : Begin(c, req)

NextRace == RaceRecord \/ RaceRead \/ Write

SpecRace == Init /\ [][NextRace]_vars

(***************************************************************************)
(* Claims checked under Spec.                                              *)
(***************************************************************************)
\* the handler that answered r left the document as it was: it wrote nothing,
\* or what it wrote is what was stored
Unchanged(r) == DOMAIN r.set = {} \/ UpdateOne(game, r.set) = game

BoxScores == {game.player_stats[i] : i \in 1..Len(game.player_stats)}
InRoster(player_id) == FindPlayer(game.player_stats, player_id) # 0
Answered(op, detail) == last = [op |-> op, detail |-> detail]

\* C1: after every apply, adjust, undoLast, undoAt and deleteShot handled one
\* at a time, the stored our_score is the sum of the points of all box scores.
C1_TeamScoreIsSum ==
    game.our_score = SumPoints(game.player_stats)

\* an adjustment has just been stored and both players have points
C1_Witness ==
    /\ Answered("adjust_stat", "ok")
    /\ \A ps \in BoxScores : ps.stats.points > 0

\* C3: no counter of any box score other than plus_minus is ever negative.
C3_NoNegativeCounter ==
    \A ps \in BoxScores : \A k \in Counters \ {"plus_minus"} : ps.stats[k] >= 0

\* C7: apply for a player who is not in the roster answers "Player not in
\* this game" and the stored game stays exactly as it was.
C7_StrangerRejected ==
    \A player_id \in PlayerIds :
      ~InRoster(player_id)
      => \A stat \in StatsOf(player_id) :
           LET r == record_stat(game, stat, next_uuid)
           IN r.detail = "Player not in this game" /\ Unchanged(r)

\* a stat for the stranger was rejected on a game that already has a ledger
C7_Witness ==
    /\ Answered("record_stat", "Player not in this game")
    /\ game.stat_history # <<>>

\* C8: undoLast on an empty ledger answers "No stats to undo" and changes
\* nothing; on a non-empty ledger it succeeds and removes exactly the tail.
C8_UndoLastNeedsEntry ==
    LET r == undo_last_stat(game)
        n == Len(game.stat_history)
    IN IF n = 0
       THEN r.detail = "No stats to undo" /\ Unchanged(r)
       ELSE /\ r.detail = "ok"
            /\ UpdateOne(game, r.set).stat_history = SubSeq(game.stat_history, 1, n - 1)

\* undoLast was refused on a game whose score an adjustment had raised
C8_Witness ==
    /\ Answered("undo_last_stat", "No stats to undo")
    /\ game.our_score > 0

\* C9: undoAt answers "Invalid entry index" exactly when the index is below 0
\* or not below the length of the ledger, and then changes nothing.
C9_InvalidIndex ==
    \A entry_index \in Indexes :
      LET r == undo_specific_stat(game, entry_index)
      IN /\ (r.detail = "Invalid entry index")
               <=> (entry_index < 0 \/ entry_index >= Len(game.stat_history))
         /\ (r.detail = "Invalid entry index" => Unchanged(r))

\* undoAt was refused on a game with a non-empty ledger
C9_Witness ==
    /\ Answered("undo_specific_stat", "Invalid entry index")
    /\ game.stat_history # <<>>

\* C10: deleteShot for a rostered player answers "Shot not found" exactly
\* when the index is below 0 or not below the number of the player's shots,
\* and then changes nothing.
C10_ShotNotFound ==
    \A player_id \in PlayerIds, shot_index \in Indexes :
      InRoster(player_id)
      => LET r == delete_shot(game, player_id, shot_index)
             shots == game.player_stats[FindPlayer(game.player_stats, player_id)].shots
         IN /\ (r.detail = "Shot not found")
                  <=> (shot_index < 0 \/ shot_index >= Len(shots))
            /\ (r.detail = "Shot not found" => Unchanged(r))

\* deleteShot was refused on a game in which a shot is recorded
C10_Witness ==
    /\ Answered("delete_shot", "Shot not found")
    /\ \E ps \in BoxScores : ps.shots # <<>>

\* C11: apply with a stat kind outside the closed set is refused and changes
\* nothing: no counter changes and no entry is appended to the ledger.
C11_UnknownKindRejected ==
    \A player_id \in PlayerIds :
      InRoster(player_id)
      => \A stat \in UnknownStatsOf(player_id) :
           LET r == record_stat(game, stat, next_uuid)
           IN r.detail # "ok" /\ Unchanged(r)

\* what recording the ledger entry added to each counter
ForwardEffect(entry) ==
    RecordCounters(PlayerStats, entry.stat_type, entry.value)

\* the counters b with the forward effect of the entry taken back, floored
ReversedEffect(b, entry) ==
    [k \in Counters |->
       IF ForwardEffect(entry)[k] # 0
       THEN Max(0, b[k] - ForwardEffect(entry)[k]) ELSE b[k]]

\* the ledger without the entry at storage position pos (counted from 1)
LedgerWithout(pos) ==
    [k \in 1..(Len(game.stat_history) - 1) |->
       game.stat_history[IF k < pos THEN k ELSE k + 1]]

\* C21: undoAt(index) with 0 <= index < len removes exactly the ledger entry
\* at storage position len-1-index, keeps the others in order, takes back
\* what that entry (of a kind other than plus_minus and minutes, with a value
\* >= 1) added to the counters of its player, and changes no other box score.
C21_UndoAtReversesEntry ==
    \A entry_index \in Indexes :
      LET n == Len(game.stat_history) IN
      (entry_index >= 0 /\ entry_index < n)
      => LET entry == game.stat_history[n - entry_index]
             r == undo_specific_stat(game, entry_index)
             after == UpdateOne(game, r.set)
             i == FindPlayer(game.player_stats, entry.player_id)
         IN /\ r.detail = "ok"
            /\ after.stat_history = LedgerWithout(n - entry_index)
            /\ \A j \in 1..Len(game.player_stats) :
                 j # i => after.player_stats[j] = game.player_stats[j]
            /\ (entry.value >= 1 /\ entry.stat_type \notin {"plus_minus", "minutes"})
               => after.player_stats[i].stats
                    = ReversedEffect(game.player_stats[i].stats, entry)

\* C22: on a non-empty ledger undoAt(0) and undoLast leave the same game:
\* the same box scores and shot lists, the same ledger, the same team score.
C22_UndoAtZeroIsUndoLast ==
    game.stat_history # <<>>
    => UpdateOne(game, undo_specific_stat(game, 0).set)
         = UpdateOne(game, undo_last_stat(game).set)

(***************************************************************************)
(* Claims checked under SpecEdit.                                          *)
(***************************************************************************)
\* C13: adjust, for every player, stat kind and delta, leaves the ledger as
\* it was (same entries, same order), so undoLast after it is answered as
\* before it and leaves the same ledger.
C13_AdjustKeepsLedger ==
    \A adjustment \in AdjustmentsWith(AdjustKinds, Deltas) :
      LET r == adjust_stat(game, adjustment)
          after == UpdateOne(game, r.set)
          undone == undo_last_stat(after)
          n == Len(game.stat_history)
      IN /\ after.stat_history = game.stat_history
         /\ undone.detail = undo_last_stat(game).detail
         /\ n > 0 => undone.set.stat_history = SubSeq(game.stat_history, 1, n - 1)

\* an adjustment has just been stored on a game whose ledger has an entry
C13_Witness ==
    /\ Answered("adjust_stat", "ok")
    /\ game.stat_history # <<>>

\* what each shooting kind adds to the counters it names
ShootingEffects ==
    [points_2 |-> [points |-> 2, fg_made |-> 1, fg_attempted |-> 1],
     miss_2 |-> [fg_attempted |-> 1],
     points_3 |-> [points |-> 3, three_pt_made |-> 1, three_pt_attempted |-> 1,
                   fg_made |-> 1, fg_attempted |-> 1],
     miss_3 |-> [three_pt_attempted |-> 1, fg_attempted |-> 1],
     ft_made |-> [points |-> 1, ft_made |-> 1, ft_attempted |-> 1],
     ft_missed |-> [ft_attempted |-> 1]]

ShootingStatsOf(player_id) ==
    [player_id : {player_id}, stat_type : DOMAIN ShootingEffects,
     value : AnyValues, shot_location : Locations]

\* C15: apply of a shooting kind for a rostered player, whatever the value
\* argument, adds to the player's counters what the table says for the kind
\* and leaves the others, and appends one shot with the kind's made flag and
\* 2pt/3pt type exactly when a shot_location is given and the kind is a two-
\* or three-point kind.
C15_ShootingEffects ==
    \A player_id \in PlayerIds :
      InRoster(player_id)
      => \A stat \in ShootingStatsOf(player_id) :
           LET r == record_stat(game, stat, next_uuid)
               i == FindPlayer(game.player_stats, player_id)
               a == UpdateOne(game, r.set).player_stats[i]
               b == game.player_stats[i]
               effect == ShootingEffects[stat.stat_type]
               n == Len(b.shots)
           IN /\ r.detail = "ok"
              /\ \A k \in Counters :
                   a.stats[k] = b.stats[k]
                                + (IF k \in DOMAIN effect THEN effect[k] ELSE 0)
              /\ IF stat.shot_location # None
                    /\ stat.stat_type \in {"points_2", "miss_2", "points_3", "miss_3"}
                 THEN /\ Len(a.shots) = n + 1
                      /\ SubSeq(a.shots, 1, n) = b.shots
                      /\ a.shots[n + 1].made
                           = (stat.stat_type \in {"points_2", "points_3"})
                      /\ a.shots[n + 1].shot_type
                           = (IF stat.stat_type \in {"points_2", "miss_2"}
                              THEN "2pt" ELSE "3pt")
                 ELSE a.shots = b.shots

\* a made shot with a location has just been recorded for a player who had
\* a shot already
C15_Witness ==
    /\ Answered("record_stat", "ok")
    /\ \E ps \in BoxScores :
         /\ Len(ps.shots) = 2
         /\ ps.shots[2].made
         /\ ps.stats.fg_made > 0

\* what deleting a shot takes from the counters it names
DeleteEffects(shot) ==
    IF shot.shot_type = "2pt"
    THEN IF shot.made
         THEN [fg_attempted |-> 1, fg_made |-> 1, points |-> 2]
         ELSE [fg_attempted |-> 1]
    ELSE IF shot.made
         THEN [three_pt_attempted |-> 1, fg_attempted |-> 1, three_pt_made |-> 1,
               fg_made |-> 1, points |-> 3]
         ELSE [three_pt_attempted |-> 1, fg_attempted |-> 1]

\* C17: deleteShot of a rostered player with a valid index removes the shot
\* at that index, the others keeping their order, and takes from the
\* player's counters what the shot's type and made flag imply, each floored
\* at 0; no other counter, no other box score and no ledger entry changes.
C17_DeleteShotEffects ==
    \A player_id \in PlayerIds, shot_index \in Indexes :
      LET i == FindPlayer(game.player_stats, player_id) IN
      (i # 0 /\ shot_index >= 0 /\ shot_index < Len(game.player_stats[i].shots))
      => LET r == delete_shot(game, player_id, shot_index)
             after == UpdateOne(game, r.set)
             a == after.player_stats[i]
             b == game.player_stats[i]
             effect == DeleteEffects(b.shots[shot_index + 1])
         IN /\ r.detail = "ok"
            /\ Len(a.shots) = Len(b.shots) - 1
            /\ \A k \in 1..Len(a.shots) :
                 a.shots[k] = b.shots[IF k <= shot_index THEN k ELSE k + 1]
            /\ \A k \in Counters :
                 a.stats[k] = IF k \in DOMAIN effect
                              THEN Max(0, b.stats[k] - effect[k])
                              ELSE b.stats[k]
            /\ a.stat_events = b.stat_events
            /\ \A j \in 1..Len(game.player_stats) :
                 j # i => after.player_stats[j] = game.player_stats[j]
            /\ after.stat_history = game.stat_history

\* the one shot a player had recorded was deleted: its ledger entry is still
\* there, the player has no shot and all counters 0
C17_Witness ==
    /\ Answered("delete_shot", "ok")
    /\ Len(game.stat_history) = 1
    /\ game.stat_history[1].shot_id # None
    /\ \E ps \in BoxScores :
         /\ ps.player_id = game.stat_history[1].player_id
         /\ ps.shots = <<>>
         /\ ps.stats = PlayerStats

\* the attempted counter paired with a made counter, and what a make is worth
Composites ==
    [fg_made |-> [attempted |-> "fg_attempted", worth |-> 2],
     three_pt_made |-> [attempted |-> "three_pt_attempted", worth |-> 3],
     ft_made |-> [attempted |-> "ft_attempted", worth |-> 1]]

\* a made two recorded on a fresh game, then fg_made adjusted by -5
MadeTwoAdjusted ==
    LET fresh == create_game(Roster)
        stat == [player_id |-> "p1", stat_type |-> "points_2", value |-> 1,
                 shot_location |-> None]
        made == UpdateOne(fresh, record_stat(fresh, stat, 1).set)
        adjustment == [player_id |-> "p1", stat_type |-> "fg_made",
                       adjustment |-> -5]
    IN UpdateOne(made, adjust_stat(made, adjustment).set).player_stats[1].stats

\* C18: adjust with delta d on fg_made, three_pt_made or ft_made sets the
\* made counter to max(0, made + d), its attempted counter to
\* max(0, attempted + d) and points to max(0, points + v * d) with v = 2, 3, 1,
\* each floored on its own; on points or a simple counter it sets that
\* counter to max(0, old + d); fg_made = 1, fg_attempted = 1, points = 2
\* adjusted by -5 on fg_made gives 0, 0, 0.
C18_AdjustEffects ==
    /\ \A adjustment \in AdjustmentsWith(AdjustKinds, Deltas) :
         LET i == FindPlayer(game.player_stats, adjustment.player_id)
             k == adjustment.stat_type
             d == adjustment.adjustment
         IN i # 0
            => LET r == adjust_stat(game, adjustment)
                   a == UpdateOne(game, r.set).player_stats[i].stats
                   b == game.player_stats[i].stats
               IN /\ r.detail = "ok"
                  /\ a[k] = Max(0, b[k] + d)
                  /\ k \in DOMAIN Composites
                     => /\ a[Composites[k].attempted]
                             = Max(0, b[Composites[k].attempted] + d)
                        /\ a.points = Max(0, b.points + Composites[k].worth * d)
    /\ MadeTwoAdjusted.fg_made = 0
    /\ MadeTwoAdjusted.fg_attempted = 0
    /\ MadeTwoAdjusted.points = 0

\* fg_made of a player with a made shot on the chart was adjusted down to 0,
\* with fg_attempted and points
C18_Witness ==
    /\ Answered("adjust_stat", "ok")
    /\ \E ps \in BoxScores :
         /\ ps.shots # <<>>
         /\ ps.shots[1].made
         /\ ps.stats.fg_made = 0
         /\ ps.stats.fg_attempted = 0
         /\ ps.stats.points = 0

\* the ledger of the game after the handler answered r
LedgerAfter(r) == UpdateOne(game, r.set).stat_history

\* C24: apply keeps the ledger as a prefix and appends one entry with the
\* player, kind and value of the request and the id of the shot it created,
\* if any; undoLast and undoAt shorten the ledger by exactly one entry;
\* adjust, deleteShot and moveShot, and every refused request, leave it as
\* it was.
C24_LedgerAppendOnly ==
    LET h == game.stat_history IN
    /\ \A stat \in StatsWith(PlayerIds, StatKinds, AnyValues) :
         LET r == record_stat(game, stat, next_uuid)
             i == FindPlayer(game.player_stats, stat.player_id)
         IN IF r.detail = "ok"
            THEN LET a == UpdateOne(game, r.set).player_stats[i].shots
                     b == game.player_stats[i].shots
                     e == LedgerAfter(r)[Len(h) + 1]
                 IN /\ Len(LedgerAfter(r)) = Len(h) + 1
                    /\ SubSeq(LedgerAfter(r), 1, Len(h)) = h
                    /\ e.player_id = stat.player_id
                    /\ e.stat_type = stat.stat_type
                    /\ e.value = stat.value
                    /\ e.shot_id = IF Len(a) > Len(b)
                                   THEN Some(a[Len(a)].id) ELSE None
            ELSE LedgerAfter(r) = h
    /\ LET r == undo_last_stat(game)
       IN IF r.detail = "ok"
          THEN Len(LedgerAfter(r)) = Len(h) - 1 ELSE LedgerAfter(r) = h
    /\ \A entry_index \in Indexes :
         LET r == undo_specific_stat(game, entry_index)
         IN IF r.detail = "ok"
            THEN Len(LedgerAfter(r)) = Len(h) - 1 ELSE LedgerAfter(r) = h
    /\ \A adjustment \in Adjustments :
         LedgerAfter(adjust_stat(game, adjustment)) = h
    /\ \A player_id \in PlayerIds, shot_index \in Indexes :
         /\ LedgerAfter(delete_shot(game, player_id, shot_index)) = h
         /\ \A shot_update \in ShotUpdates :
              LedgerAfter(update_shot_location(game, player_id, shot_index,
                                               shot_update)) = h

\* a shot with a location was recorded after a stat that made no shot: the
\* new tail entry carries the id of the shot, the older entry none
C24_Witness ==
    /\ Answered("record_stat", "ok")
    /\ Len(game.stat_history) = 2
    /\ game.stat_history[1].shot_id = None
    /\ game.stat_history[2].shot_id # None

\* C26: deleteShot and moveShot asked for a player who is not in the roster
\* of the game are answered with an error, and the stored game stays as it
\* was.
C26_UnrosteredShotEditRejected ==
    \A player_id \in PlayerIds, shot_index \in ShotIndexes :
       ~InRoster(player_id)
       => LET d == delete_shot(game, player_id, shot_index) IN
          /\ d.detail # "ok"
          /\ Unchanged(d)
          /\ \A shot_update \in ShotUpdates :
               LET m == update_shot_location(game, player_id, shot_index,
                                             shot_update)
               IN m.detail # "ok" /\ Unchanged(m)

(***************************************************************************)
(* Claims checked under SpecChart.                                         *)
(***************************************************************************)
\* C27: after any sequence of apply, deleteShot, undoLast and undoAt, every
\* player has at most fg_attempted shots on the chart and at most fg_made
\* made shots on it.
C27_ChartWithinBoxScore ==
    \A ps \in BoxScores :
       /\ Len(ps.shots) <= ps.stats.fg_attempted
       /\ Len(SelectSeq(ps.shots, LAMBDA shot : shot.made)) <= ps.stats.fg_made

(***************************************************************************)
(* Claims checked under SpecShare.                                         *)
(***************************************************************************)
\* the tokens for which the public endpoint returns the document g
Viewable(g) ==
    {share_token \in RequestedTokens : get_public_game(g, share_token).detail = "ok"}

\* C30: the public endpoint returns the game for a token only if the token
\* is the game's share_token and the game is public; a game never shared, or
\* whose link was revoked last, is returned for no token; sharing a game
\* that holds a token makes it public under that same token, whatever fresh
\* token was drawn.
C30_PublicSharing ==
    /\ \A share_token \in Viewable(game) :
         game.share_token = Some(share_token) /\ game.is_public
    /\ game.share_token = None => Viewable(game) = {}
    /\ Answered("revoke_share_link", "ok") => Viewable(game) = {}
    /\ Viewable(UpdateOne(game, revoke_share_link(game).set)) = {}
    /\ \A token \in Tokens :
         LET r == create_share_link(game, user, token)
             after == UpdateOne(game, r.set)
         IN IF r.detail = "ok"
            THEN /\ after.is_public
                 /\ game.share_token # None
                    => after.share_token = game.share_token
                 /\ game.share_token = None
                    => after.share_token = Some(token)
                 /\ Viewable(after) = {after.share_token[1]}
            ELSE after = game

\* the link of a game shared by a pro owner under token "t1" was just
\* revoked: sharing again is accepted and the fresh token may be "t2"
C30_Witness ==
    /\ Answered("revoke_share_link", "ok")
    /\ game.share_token = Some("t1")
    /\ ~game.is_public
    /\ check_subscription(user, "pro")

(***************************************************************************)
(* Claims checked under SpecHistory.                                       *)
(***************************************************************************)
\* C25: the undo history holds at most the 10 most recent ledger entries,
\* most recent first, and undoAt(i) for every position i of that list
\* removes from the ledger exactly the entry the list shows at position i.
C25_HistoryMatchesUndoAt ==
    LET h == game.stat_history
        n == Len(h)
        view == get_undo_history(game)
    IN /\ Len(view) = IF n < HistoryLimit THEN n ELSE HistoryLimit
       /\ \A i \in 0..(Len(view) - 1) :
            LET r == undo_specific_stat(game, i)
            IN /\ view[i + 1] = h[n - i]
               /\ r.detail = "ok"
               /\ LedgerAfter(r) = LedgerWithout(n - i)

\* the history was read from a ledger longer than the history, whose oldest
\* entry differs from the ones shown, and one of the entries shown was then
\* undone
C25_Witness ==
    /\ Answered("undo_specific_stat", "ok")
    /\ ops = MaxHistory + 2
    /\ Len(game.stat_history) = HistoryLimit
    /\ game.stat_history[1].stat_type = "assists"
    /\ \A k \in 2..HistoryLimit : game.stat_history[k].stat_type = "steals"
    /\ game.player_stats[1].stats.steals = HistoryLimit - 1

(***************************************************************************)
(* Claims checked under SpecShot.                                          *)
(***************************************************************************)
\* the shot a of the request is the shot b moved to shot_update: x and y are
\* the new ones and every other field is as in b
IsMoved(a, b, shot_update) ==
    /\ DOMAIN a = DOMAIN b
    /\ a.x = shot_update.x
    /\ a.y = shot_update.y
    /\ \A f \in DOMAIN b \ {"x", "y"} : a[f] = b[f]

\* C14: moveShot of a rostered player with a valid index changes only x and y
\* of the addressed shot: all counters, the team score, the ledger, the number
\* and order of shots and the other fields of every shot stay; with an index
\* out of range it answers "Shot not found" and changes nothing.
C14_MoveOnlyCoordinates ==
    \A player_id \in PlayerIds, shot_index \in ShotIndexes,
       shot_update \in ShotUpdates :
      InRoster(player_id)
      => LET r == update_shot_location(game, player_id, shot_index, shot_update)
             after == UpdateOne(game, r.set)
             i == FindPlayer(game.player_stats, player_id)
         IN IF shot_index >= 0 /\ shot_index < Len(game.player_stats[i].shots)
            THEN /\ r.detail = "ok"
                 /\ after.our_score = game.our_score
                 /\ after.stat_history = game.stat_history
                 /\ after.status = game.status
                 /\ Len(after.player_stats) = Len(game.player_stats)
                 /\ \A j \in 1..Len(game.player_stats) :
                      LET a == after.player_stats[j]
                          b == game.player_stats[j]
                      IN /\ a.player_id = b.player_id
                         /\ a.stats = b.stats
                         /\ a.stat_events = b.stat_events
                         /\ Len(a.shots) = Len(b.shots)
                         /\ \A k \in 1..Len(b.shots) :
                              IF j = i /\ k = shot_index + 1
                              THEN IsMoved(a.shots[k], b.shots[k], shot_update)
                              ELSE a.shots[k] = b.shots[k]
            ELSE r.detail = "Shot not found" /\ Unchanged(r)

\* the first of two shots of a player was moved and the second was not
C14_Witness ==
    /\ Answered("update_shot_location", "ok")
    /\ \E ps \in BoxScores :
         /\ Len(ps.shots) = 2
         /\ ps.shots[1].x = 10
         /\ ps.shots[2].x = 30

\* in the document after, every shot list is the one of the stored game
\* without the shots that have the id, the others in their order
ShotGone(after, id) ==
    \A j \in 1..Len(game.player_stats) :
      after.player_stats[j].shots
        = SelectSeq(game.player_stats[j].shots, LAMBDA shot : shot.id # id)

\* a made three with a location recorded on a fresh game and undone
MadeThreeUndone ==
    LET fresh == create_game(Roster)
        stat == [player_id |-> "p1", stat_type |-> "points_3", value |-> 1,
                 shot_location |-> Some([x |-> 30, y |-> 70])]
        made == UpdateOne(fresh, record_stat(fresh, stat, 1).set)
    IN UpdateOne(made, undo_last_stat(made).set)

\* C16: undoLast and undoAt of a ledger entry that carries a shot identifier
\* leave no shot with that identifier in any shot list and every other shot
\* of every player in place; a made three with a location recorded on a
\* fresh game and undone leaves all counters 0, no shot and team score 0.
C16_UndoRemovesItsShot ==
    LET n == Len(game.stat_history) IN
    /\ (n > 0 /\ game.stat_history[n].shot_id # None)
       => ShotGone(UpdateOne(game, undo_last_stat(game).set),
                   game.stat_history[n].shot_id[1])
    /\ \A entry_index \in 0..(n - 1) :
         LET entry == game.stat_history[n - entry_index]
         IN entry.shot_id # None
            => ShotGone(UpdateOne(game, undo_specific_stat(game, entry_index).set),
                        entry.shot_id[1])
    /\ MadeThreeUndone.player_stats = create_game(Roster).player_stats
    /\ MadeThreeUndone.our_score = 0

\* the older of two shots was undone by its index and the newer one, with
\* its ledger entry, is still there
C16_Witness ==
    /\ Answered("undo_specific_stat", "ok")
    /\ Len(game.stat_history) = 1
    /\ game.stat_history[1].shot_id = Some(2)
    /\ \E ps \in BoxScores : Len(ps.shots) = 1 /\ ps.shots[1].id = 2
    /\ \A ps \in BoxScores : Len(ps.shots) <= 1

(***************************************************************************)
(* Claims checked under SpecGame.                                          *)
(***************************************************************************)
\* C12: on a completed game whose owner has no pro-or-higher subscription,
\* apply, adjust, undoLast, undoAt and deleteShot are refused and change
\* nothing.
C12_CompletedIsFrozen ==
    (game.status = "completed" /\ ~check_subscription(user, "pro"))
    => \A req \in ConcRequests :
         LET r == Handle(req, game, next_uuid)
         IN r.detail # "ok" /\ Unchanged(r)

\* C19: update_game, with any combination of its fields, leaves the counters
\* of every box score and our_score as they were, so our_score is still the
\* sum of the players' points after it.
C19_UpdateGameKeepsScores ==
    \A game_data \in GameUpdates :
      LET after == UpdateOne(game, update_game(game, game_data, user).set)
      IN /\ after.our_score = game.our_score
         /\ \A j \in 1..Len(game.player_stats) :
              after.player_stats[j].stats = game.player_stats[j].stats
         /\ game.our_score = SumPoints(game.player_stats)
            => after.our_score = SumPoints(after.player_stats)

(***************************************************************************)
(* Claims checked under SpecCreate.                                        *)
(***************************************************************************)
\* C20: create_game makes, in request order, one all-zero box score without
\* shots for each requested player, with team score 0 and an empty ledger,
\* and no two box scores of a game ever have the same player_id.
C20_OneBoxScorePerPlayer ==
    /\ \A player_ids \in GameCreates :
         (\A i \in 1..Len(player_ids) : player_ids[i] \in Players)
         => LET created == create_game(player_ids)
            IN /\ Len(created.player_stats) = Len(player_ids)
               /\ \A i \in 1..Len(player_ids) :
                    created.player_stats[i] = GamePlayerStats(player_ids[i])
               /\ created.our_score = 0
               /\ created.stat_history = <<>>
    /\ \A i, j \in 1..Len(game.player_stats) :
         i # j => game.player_stats[i].player_id # game.player_stats[j].player_id

(***************************************************************************)
(* Claims checked under SpecTrip and SpecAdjust.                           *)
(***************************************************************************)
\* C2: after n stats recorded on a fresh game and then n undoLast, every
\* box score has all counters 0 again and the team score is 0.
C2_RoundTrip ==
    (Answered("undo_last_stat", "ok") /\ game.stat_history = <<>>)
    => /\ \A ps \in BoxScores : ps.stats = PlayerStats
       /\ game.our_score = 0

\* C23: after stats of value 1 (no plus_minus, no minutes) recorded on a
\* fresh game and all their entries removed with undoAt, in any order of
\* indexes, every counter is 0, every shot list empty and the team score 0,
\* as after undoing them from the tail.
C23_UndoAnyOrder ==
    (Answered("undo_specific_stat", "ok") /\ game.stat_history = <<>>)
    => /\ \A ps \in BoxScores : ps.stats = PlayerStats /\ ps.shots = <<>>
       /\ game.our_score = 0

\* C4: in every box score fg_attempted >= fg_made, three_pt_attempted >=
\* three_pt_made and fg_made >= three_pt_made.
C4_ShotCountersOrdered ==
    \A ps \in BoxScores :
      /\ ps.stats.fg_attempted >= ps.stats.fg_made
      /\ ps.stats.three_pt_attempted >= ps.stats.three_pt_made
      /\ ps.stats.fg_made >= ps.stats.three_pt_made

\* C5: in every box score rebounds = offensive_rebounds + defensive_rebounds
\* as long as the total-rebound kind is never recorded or adjusted.
C5_ReboundsInSync ==
    \A ps \in BoxScores :
      ps.stats.rebounds = ps.stats.offensive_rebounds + ps.stats.defensive_rebounds

(***************************************************************************)
(* Claims checked under SpecConc.                                          *)
(***************************************************************************)
\* every connection has recorded a stat and been answered "ok", and all of
\* them read the same document: each read before any of the others wrote
AllRaced ==
    \A c \in Connections :
      /\ inflight[c].pc = "done"
      /\ inflight[c].req.op = "record_stat"
      /\ inflight[c].read = inflight[1].read

\* C29: stat_events round-trips with undo: once every recorded entry was
\* undone, by undoLast or undoAt, every player's stat_events list is what it
\* was before the applies, the empty list of the fresh game.
C29_EventsRoundTrip ==
    (/\ last.op \in {"undo_last_stat", "undo_specific_stat"}
     /\ last.detail = "ok"
     /\ game.stat_history = <<>>)
    => \A ps \in BoxScores : ps.stat_events = <<>>

\* C28: in every state reached by handlers of apply, adjust, undoLast,
\* undoAt, deleteShot and moveShot that interleave between their read and
\* their write, the stored our_score is the sum of the points of the stored
\* box scores.
C28_ScoreIsSumWhenInterleaved ==
    LET total == SumPoints(game.player_stats)
    IN game.our_score = total

\* C6: when two applies of the same game each read the document before the
\* other writes it, both are answered "ok" and the stored document has the
\* box-score change and the ledger entry of only one of them.
C6_LostUpdate ==
    (MaxConnections >= 2 /\ AllRaced)
    => /\ Len(game.stat_history) = Len(inflight[1].read.stat_history) + 1
       /\ \E c \in Connections : game = UpdateOne(inflight[1].read, Written(c))

\* two applies raced and both were answered "ok"
C6_Witness ==
    /\ MaxConnections >= 2
    /\ AllRaced
    /\ Answered("record_stat", "ok")

====
